---- MODULE Spec2Model ----
(***************************************************************************)
(* A model of parts of the vrp solver:                                      *)
(*   - the timing constraint module (construction/constraints/timing.rs),   *)
(*   - the static selective hyper-heuristic and its context-aware mutation  *)
(*     probability (solver/hyper/static_selective.rs),                      *)
(*   - the MDP simulator (algorithms/mdp/simulator.rs),                     *)
(*   - check_limits of the solution checker, as its unit tests use it.      *)
(* Each part has its own specification (SpecTiming, SpecEstimate,           *)
(* SpecSelective, SpecSimulator, SpecPredicate, SpecLimits); the variables  *)
(* of the other parts stay at their initial value.  SpecEpisodes is         *)
(* SpecSimulator with the history of the running episodes recorded.         *)
(* Timestamps, durations and costs (f64 in the source) are integers: the    *)
(* code only adds, subtracts, multiplies, compares and takes min/max.       *)
(***************************************************************************)
EXTENDS Integers, Sequences, FiniteSets, TLC

VARIABLES
    route,      \* RouteContext: actor, tour (activities with schedule), per-activity state
    target,     \* the activity the insertion evaluator tries to place
    evalRes,    \* last result of evaluate_activity: [pos, res] or NoEval
    lastOp,     \* the operation that produced the current timing state
    fault,      \* panic raised by the last timing operation, or NoFault
    poisoned,   \* ctx.state's RwLock is poisoned (a writer panicked holding it)
    runs,       \* accept_route_state calls since the last structural change
    firstRun,   \* the route as the first of these calls left it
    required    \* SolutionContext.required: the number of jobs not yet assigned

timingVars == <<route, target, evalRes, lastOp, fault, poisoned, runs, firstRun, required>>

VARIABLES
    individuals,    \* the individuals handed to StaticSelective::search
    task,           \* per index: queued | running | exited | returned
    arg,            \* per index: the insertion_ctx its mutate call received
    ctx,            \* per index: the fold's accumulator
    entry,          \* per index: the mutation_group entry the filter looks at next
    applied,        \* per index: the outputs of the mutations applied, in order
    received,       \* per index: the entry and the input of each mutation applied
    completed,      \* (index, result) of the tasks, in the order they returned
    results,        \* what search returned, or NoResults
    store,          \* the allocations holding contexts' state, and what each holds now
    cell,           \* per index: the allocation the fold's accumulator lives in
    evaluated       \* per index: the probability predicates evaluated, in order

selectiveVars == <<individuals, task, arg, ctx, entry, applied, received, completed, results,
                   store, cell, evaluated>>

VARIABLES
    q,          \* Simulator.q: state -> (action -> estimate)
    qBefore,    \* q as it was when the last merge began
    reduceBy,   \* the reduce function handed to run_episodes
    phase,      \* idle | episodes | merged
    round,      \* run_episodes calls made
    agState,    \* per agent: the agent's current state
    qNew,       \* per agent: the episode's q_new
    pc,         \* per agent: where its run_episode stands
    oldState,   \* per agent: old_state of the current iteration
    action,     \* per agent: the action taken in the current iteration
    oldValue,   \* per agent: old_value of the current iteration
    steps       \* per agent: actions taken in the episode

simulatorVars == <<q, qBefore, reduceBy, phase, round, agState, qNew, pc,
                   oldState, action, oldValue, steps>>

VARIABLES
    predConfig,     \* create_context_mutation_probability's arguments
    predCall,       \* the contexts and the random draw of the last predicate call
    predResult,     \* what the call returned
    consulted       \* the call asked the random source

predicateVars == <<predConfig, predCall, predResult, consulted>>

VARIABLES
    limits,         \* the vehicle type's limits
    checkedTour,    \* the tour handed to check_limits: statistic and stops
    limitResult     \* unchecked | ok | the limit reported as violated

limitsVars == <<limits, checkedTour, limitResult>>

VARIABLES
    costs,          \* actor.vehicle.costs
    estimate        \* what the last estimate_activity call computed, or NoEstimate

estimateVars == <<costs, estimate>>

VARIABLES
    snapshot,       \* q as it was when the last run_episodes call began
    startState,     \* per agent: the state its episode began in
    chosen          \* per agent: the actions the policy selected, in order

episodeVars == <<snapshot, startState, chosen>>

vars == <<timingVars, selectiveVars, simulatorVars, predicateVars, limitsVars, estimateVars,
          episodeVars>>

----------------------------------------------------------------------------
(* Bounds and program constants *)

MaxJobs == 2            \* job activities in a context handed to the module
MaxCalls == 2           \* accept_route_state calls followed on an unchanged tour
MaxRequired == 1         \* jobs not yet assigned when the route is handed over
MaxIndividuals == 2     \* individuals in one search call
GroupSize == 3          \* entries of the mutation group
MaxCost == 2            \* objective values of an insertion context
ProbScale == 2          \* probabilities are multiples of 1/ProbScale
MaxThreshold == 2       \* jobs_threshold, routes_threshold and the sizes compared with them
MaxPhases == 2          \* entries of the phases argument
MaxStops == 3           \* job stops of a checked tour
NumAgents == 2          \* agents in one run_episodes call
MaxSteps == 3           \* actions after which the policy ends an episode
MaxRounds == 2          \* run_episodes calls followed

LATEST_ARRIVAL_KEY == 1
WAITING_KEY == 2
OP_START_MSG == "Optional start is not yet implemented."
POISON_MSG == "PoisonError"
UNIMPLEMENTED_MSG == "not implemented"
NoFault == "none"

Max(a, b) == IF a >= b THEN a ELSE b
Min(a, b) == IF a <= b THEN a ELSE b
Abs(a) == IF a >= 0 THEN a ELSE 0 - a

----------------------------------------------------------------------------
(* Inputs: locations, places, actors.  The transport and activity cost     *)
(* oracles are injected; here travel time is the distance on a line and an  *)
(* activity lasts its place's duration.                                     *)

Depot == 0              \* the actor's start (and end) location
JobLocations == {1, 2}
TwStarts == {0, 2}
TwEnds == {1, 3}
Durations == {0, 1}
ActorEnds == {1, 3, 6}

TransportDuration(from, to, departure) == Abs(from - to)

ActivityDuration(a, arrival) == a.dur

\* An activity: place {location, duration, time}, schedule {arrival, departure},
\* job (FALSE for a terminal), and its entries of the route state
\* (has: the LATEST_ARRIVAL/WAITING entries exist).
Activity(loc, tws, twe, dur, job) ==
    [loc |-> loc, tws |-> tws, twe |-> twe, dur |-> dur, job |-> job,
     arr |-> 0, dep |-> 0, has |-> FALSE, latest |-> 0, waiting |-> 0]

JobActivities ==
    {a \in {Activity(l, s, e, d, TRUE) : l \in JobLocations, s \in TwStarts,
                                         e \in TwEnds, d \in Durations} :
        a.tws <= a.twe}

\* Terminals as the tour builds them: the start leaves at the shift start 0,
\* the end terminal's window closes with the shift.
StartActivity == Activity(Depot, 0, 99, 0, FALSE)
EndActivity(timeEnd) == Activity(Depot, 0, timeEnd, 0, FALSE)

Actor(timeEnd, closed) ==
    [timeEnd |-> timeEnd, hasStart |-> TRUE, start |-> Depot,
     hasEnd |-> closed, end |-> Depot]

JobSeqs == UNION {[1..n -> JobActivities] : n \in 0..MaxJobs}

Tour(jobs, timeEnd, closed) ==
    <<StartActivity>> \o jobs \o (IF closed THEN <<EndActivity(timeEnd)>> ELSE <<>>)

----------------------------------------------------------------------------
(* accept_route_state: the two folds *)

\* timing.rs 38-55: forward fold over all_activities().skip(1)
RECURSIVE ForwardFold(_, _, _, _)
ForwardFold(tour, i, loc, dep) ==
    IF i > Len(tour) THEN tour
    ELSE LET a == tour[i]
             arrival == dep + TransportDuration(loc, a.loc, dep)
             departure == Max(arrival, a.tws) + ActivityDuration(a, arrival)
         IN ForwardFold([tour EXCEPT ![i].arr = arrival, ![i].dep = departure],
                        i + 1, a.loc, departure)

UpdateSchedules(tour) == ForwardFold(tour, 2, tour[1].loc, tour[1].dep)

\* timing.rs 63-81: fold over all_activities().rev(); acc = (end_time, prev_loc, waiting)
RECURSIVE BackwardFold(_, _, _, _, _)
BackwardFold(tour, i, end_time, prev_loc, waiting) ==
    IF i < 1 THEN tour
    ELSE LET act == tour[i] IN
         IF ~act.job THEN BackwardFold(tour, i - 1, end_time, prev_loc, waiting)
         ELSE LET potential_latest ==
                      end_time - TransportDuration(act.loc, prev_loc, end_time)
                               - ActivityDuration(act, end_time)
                  latest_arrival_time == Min(act.twe, potential_latest)
                  future_waiting == waiting + Max(act.tws - act.arr, 0)
              IN BackwardFold([tour EXCEPT ![i].has = TRUE,
                                           ![i].latest = latest_arrival_time,
                                           ![i].waiting = future_waiting],
                              i - 1, latest_arrival_time, act.loc, future_waiting)

\* timing.rs 58-62: init of the backward fold
UpdateStates(actor, tour) ==
    BackwardFold(tour, Len(tour), actor.timeEnd,
                 IF actor.hasEnd THEN actor.end ELSE actor.start, 0)

\* The values lines 37-81 define for a tour.
Derived(actor, tour) == UpdateStates(actor, UpdateSchedules(tour))

----------------------------------------------------------------------------
(* TimeHardActivityConstraint *)

\* timing.rs 133-143: fail (stopped), stop (not stopped), success (no violation)
Fail == [violation |-> TRUE, stopped |-> TRUE]
Stop == [violation |-> TRUE, stopped |-> FALSE]
Success == [violation |-> FALSE, stopped |-> FALSE]

\* timing.rs 162-167: the checks made before ctx.state is read
PreCheckFails(actor, prev, tgt, hasNext, next) ==
    \/ actor.timeEnd < prev.tws
    \/ actor.timeEnd < tgt.tws
    \/ (hasNext /\ actor.timeEnd < next.tws)

\* timing.rs 171-184
NextActLocation(tgt, hasNext, next) == IF hasNext THEN next.loc ELSE tgt.loc

LatestArrTimeAtNextAct(actor, tgt, hasNext, next) ==
    IF hasNext
    THEN (IF next.has THEN next.latest ELSE next.twe)
    ELSE Min(tgt.twe, actor.timeEnd)

\* timing.rs 207-221
LatestArrTimeAtNewAct(tgt, next_act_location, latest_arr_time_at_next_act, arr_time_at_target_act) ==
    Min(tgt.twe,
        latest_arr_time_at_next_act
          - TransportDuration(tgt.loc, next_act_location, latest_arr_time_at_next_act)
          + ActivityDuration(tgt, arr_time_at_target_act))

\* timing.rs 227-229: a closed insertion is accepted without the arrival check at next
ClosedSucceedsEarly(hasNext) == hasNext

\* timing.rs 169-239: the part of evaluate_activity after the pre-checks
EvaluateRest(actor, prev, tgt, hasNext, next) ==
    LET departure == prev.dep
        next_act_location == NextActLocation(tgt, hasNext, next)
        latest_arr_time_at_next_act == LatestArrTimeAtNextAct(actor, tgt, hasNext, next)
        arr_time_at_next ==
            departure + TransportDuration(prev.loc, next_act_location, departure)
        arr_time_at_target_act ==
            departure + TransportDuration(prev.loc, tgt.loc, departure)
        end_time_at_new_act ==
            Max(arr_time_at_target_act, tgt.tws)
              + ActivityDuration(tgt, arr_time_at_target_act)
        latest_arr_time_at_new_act ==
            LatestArrTimeAtNewAct(tgt, next_act_location, latest_arr_time_at_next_act,
                                  arr_time_at_target_act)
        arr_time_at_next_act ==
            end_time_at_new_act
              + TransportDuration(tgt.loc, next_act_location, end_time_at_new_act)
    IN IF hasNext /\ actor.timeEnd < next.tws THEN Fail
       ELSE IF arr_time_at_next > latest_arr_time_at_next_act THEN Fail
       ELSE IF tgt.tws > latest_arr_time_at_next_act THEN Stop
       ELSE IF arr_time_at_target_act > latest_arr_time_at_new_act THEN Stop
       ELSE IF ClosedSucceedsEarly(hasNext) THEN Success
       ELSE IF arr_time_at_next_act > latest_arr_time_at_next_act THEN Stop
       ELSE Success

\* Insertion positions of a tour: pos p places the target after tour[p];
\* the last position of an open tour has no next.
Positions(r) == 1..(IF r.actor.hasEnd THEN Len(r.tour) - 1 ELSE Len(r.tour))
HasNext(r, p) == p < Len(r.tour)
NextOf(r, p) == IF HasNext(r, p) THEN r.tour[p + 1] ELSE r.tour[p]

\* timing.rs 147-239 on an unpoisoned context
EvaluateActivity(r, tgt, p) ==
    IF PreCheckFails(r.actor, r.tour[p], tgt, HasNext(r, p), NextOf(r, p)) THEN Fail
    ELSE EvaluateRest(r.actor, r.tour[p], tgt, HasNext(r, p), NextOf(r, p))

----------------------------------------------------------------------------
(* The timing module's operations on one route context *)

NoEval == [pos |-> 0, res |-> Success, feasible |-> FALSE, committed |-> FALSE]
NoRoute == [actor |-> Actor(0, FALSE), tour |-> <<>>]

JobCount(tour) == Cardinality({i \in 1..Len(tour) : tour[i].job})

\* Every job is reached within its window and the vehicle finishes within the
\* shift: at the end terminal, or with the last departure on an open route.
TimeFeasible(r) ==
    /\ \A i \in 1..Len(r.tour) : r.tour[i].job => r.tour[i].arr <= r.tour[i].twe
    /\ IF r.actor.hasEnd
       THEN r.tour[Len(r.tour)].arr <= r.actor.timeEnd
       ELSE r.tour[Len(r.tour)].dep <= r.actor.timeEnd

\* The single-vehicle scenario: shift [0, 100], start and end at the depot,
\* jobs at locations 1, 2, 3 with windows [10,20], [30,40], [50,60] and
\* service time 5; the job offered for insertion has window [0,5].
ScenarioShiftEnd == 100
ScenarioActor == Actor(ScenarioShiftEnd, TRUE)
ScenarioJobs ==
    <<Activity(1, 10, 20, 5, TRUE), Activity(2, 30, 40, 5, TRUE),
      Activity(3, 50, 60, 5, TRUE)>>
ScenarioTour == Tour(ScenarioJobs, ScenarioShiftEnd, TRUE)
ScenarioTargets == {Activity(l, 0, 5, 5, TRUE) : l \in {3, 4}}

\* the scenario's context as built (no schedule, no state yet) and as lines
\* 37-81 define its schedule and state
ScenarioRoutes ==
    {[actor |-> ScenarioActor, tour |-> ScenarioTour],
     [actor |-> ScenarioActor, tour |-> Derived(ScenarioActor, ScenarioTour)]}

\* The contexts handed to the module: a tour of up to MaxJobs jobs, closed or
\* open, carrying the schedule and the state lines 37-81 define for it; or the
\* scenario's context.
InitTiming ==
    /\ \/ /\ \E jobs \in JobSeqs, e \in ActorEnds, closed \in BOOLEAN :
                route = [actor |-> Actor(e, closed),
                         tour |-> Derived(Actor(e, closed), Tour(jobs, e, closed))]
          /\ target \in JobActivities
       \/ /\ route \in ScenarioRoutes
          /\ target \in ScenarioTargets
    /\ evalRes = NoEval
    /\ lastOp = "init"
    /\ fault = NoFault
    /\ poisoned = FALSE
    /\ runs = 0
    /\ firstRun = NoRoute
    /\ required \in 0..MaxRequired

\* Option::unwrap_or takes its default by value, so the argument written at
\* lines 33 and 60, panic!(OP_START_MSG), is evaluated before the call is made,
\* whatever the option holds.
UnwrapOrPanics(isSome) == TRUE

\* An accept_route_state that completes and seeds the backward fold's waiting
\* with the WAITING value already stored for the tour's last job instead of 0.
StoredWaiting(tour) ==
    LET withState == {i \in 1..Len(tour) : tour[i].has}
    IN IF withState = {} THEN 0
       ELSE tour[CHOOSE i \in withState : \A k \in withState : k <= i].waiting

AcceptRouteStateAccumulating ==
    /\ runs < MaxCalls
    /\ runs' = runs + 1
    /\ lastOp' = "accept"
    /\ fault' = NoFault
    /\ route' = [route EXCEPT !.tour =
                    BackwardFold(UpdateSchedules(@), Len(@), route.actor.timeEnd,
                                 IF route.actor.hasEnd THEN route.actor.end
                                 ELSE route.actor.start,
                                 StoredWaiting(@))]
    /\ firstRun' = IF runs = 0 THEN route' ELSE firstRun
    /\ UNCHANGED <<target, evalRes, poisoned, required>>

\* timing.rs 30-82.  The write guard on ctx.state (line 32) is held when line 33
\* panics, which poisons the lock.
AcceptRouteState ==
    /\ runs < MaxCalls
    /\ runs' = runs + 1
    /\ lastOp' = "accept"
    /\ IF poisoned
       THEN /\ fault' = POISON_MSG
            /\ UNCHANGED <<route, poisoned>>
       ELSE IF UnwrapOrPanics(Len(route.tour) >= 1)
       THEN /\ fault' = OP_START_MSG
            /\ poisoned' = TRUE
            /\ UNCHANGED route
       ELSE IF UnwrapOrPanics(route.actor.hasEnd \/ route.actor.hasStart)
       THEN /\ fault' = OP_START_MSG
            /\ poisoned' = TRUE
            /\ route' = [route EXCEPT !.tour = UpdateSchedules(@)]
       ELSE /\ fault' = NoFault
            /\ route' = [route EXCEPT !.tour = Derived(route.actor, @)]
            /\ UNCHANGED poisoned
    /\ firstRun' = IF runs = 0 THEN route' ELSE firstRun
    /\ UNCHANGED <<target, evalRes, required>>

\* timing.rs 147-239.  ctx.state is read at line 169, after the pre-checks.
EvaluateActivityCall(p) ==
    /\ lastOp # "insert"
    /\ p \in Positions(route)
    /\ lastOp' = "evaluate"
    /\ IF poisoned /\ ~PreCheckFails(route.actor, route.tour[p], target,
                                     HasNext(route, p), NextOf(route, p))
       THEN /\ fault' = POISON_MSG
            /\ evalRes' = NoEval
       ELSE /\ fault' = NoFault
            /\ evalRes' = [pos |-> p, res |-> EvaluateActivity(route, target, p),
                           feasible |-> TimeFeasible(route), committed |-> FALSE]
    /\ UNCHANGED <<route, target, poisoned, runs, firstRun, required>>

InsertAt(tour, p, a) == SubSeq(tour, 1, p) \o <<a>> \o SubSeq(tour, p + 1, Len(tour))

\* The insertion evaluator commits a position the hard constraint accepted:
\* the target enters the tour with no schedule and no state yet and leaves
\* the required jobs.
CommitInsertion ==
    /\ lastOp = "evaluate"
    /\ required > 0
    /\ required' = required - 1
    /\ fault = NoFault
    /\ evalRes.pos > 0
    /\ ~evalRes.res.violation
    /\ JobCount(route.tour) <= MaxJobs
    /\ route' = [route EXCEPT !.tour = InsertAt(@, evalRes.pos, target)]
    /\ evalRes' = [evalRes EXCEPT !.committed = TRUE]
    /\ lastOp' = "insert"
    /\ runs' = 0
    /\ firstRun' = NoRoute
    /\ UNCHANGED <<target, fault, poisoned>>

\* Tour::activity_count
ActivityCount(tour) == Len(tour)

\* timing.rs 314-316: unimplemented!()
RescheduleDeparture(r) == [fault |-> UNIMPLEMENTED_MSG, route |-> r]

\* timing.rs 84-93.  The pipeline calls it after accept_route_state.
AcceptSolutionState ==
    /\ lastOp # "insert"
    /\ lastOp' = "accept_solution"
    /\ IF required = 0 /\ ActivityCount(route.tour) > 0
       THEN /\ fault' = RescheduleDeparture(route).fault
            /\ route' = RescheduleDeparture(route).route
       ELSE /\ fault' = NoFault
            /\ UNCHANGED route
    /\ UNCHANGED <<target, evalRes, poisoned, runs, firstRun, required>>


IdleTiming ==
    /\ route = NoRoute
    /\ target = StartActivity
    /\ evalRes = NoEval
    /\ lastOp = "idle"
    /\ fault = NoFault
    /\ poisoned = FALSE
    /\ runs = 0
    /\ firstRun = NoRoute
    /\ required = 0

----------------------------------------------------------------------------
(* Properties of the timing module *)

\* B.arrival = A.departure + duration(A, B, A.departure) for consecutive A, B
ConsecutiveArrivals(r) ==
    \A i \in 1..(Len(r.tour) - 1) :
        r.tour[i + 1].arr =
            r.tour[i].dep + TransportDuration(r.tour[i].loc, r.tour[i + 1].loc, r.tour[i].dep)

\* The route with the schedule lines 38-55 give its tour.
Scheduled(r) == [r EXCEPT !.tour = UpdateSchedules(@)]

\* sum over X = tour[i] and the activities after it of max(0, tw.start - arrival)
RECURSIVE WaitingFrom(_, _)
WaitingFrom(tour, i) ==
    IF i > Len(tour) THEN 0
    ELSE Max(0, tour[i].tws - tour[i].arr) + WaitingFrom(tour, i + 1)

LatestWithinBounds(r) ==
    \A i \in 1..Len(r.tour) :
        r.tour[i].job =>
            /\ r.tour[i].has
            /\ r.tour[i].arr <= r.tour[i].latest
            /\ r.tour[i].latest <= r.tour[i].twe

WaitingIsSuffixSum(r) ==
    \A i \in 1..Len(r.tour) :
        r.tour[i].has => r.tour[i].waiting = WaitingFrom(r.tour, i)

\* accept_route_state has run on a tour into which an accepted target was
\* committed, the route having been time-feasible with computed state before.
AcceptedAfterInsertion ==
    lastOp = "accept" /\ evalRes.committed /\ evalRes.feasible

\* C1: insertion soundness.  When evaluate_activity returned no violation for
\* (prev, target, next) on a time-feasible route with computed state, then after
\* the insertion and accept_route_state every job is reached within its window
\* and the vehicle finishes within the shift, on the schedule the tour has
\* (arrival = previous departure + travel time).
C1_InsertionSoundness ==
    AcceptedAfterInsertion => TimeFeasible(Scheduled(route))

\* C2: after accept_route_state on any route, each activity's arrival is the
\* previous activity's departure plus the travel time between them.
C2_ConsecutiveArrivalsAfterAccept ==
    lastOp = "accept" => ConsecutiveArrivals(route)

\* C3: after accept_route_state on a time-feasible route, closed or open,
\* every job activity has arrival <= LATEST_ARRIVAL <= time window end.
C3_ArrivalWithinLatestAfterAccept ==
    (lastOp = "accept" /\ TimeFeasible(route)) => LatestWithinBounds(route)

\* C4: after accept_route_state, the WAITING value of an activity is the sum of
\* max(0, tw.start - arrival) over it and the activities after it.
C4_WaitingIsSuffixSumAfterAccept ==
    lastOp = "accept" => WaitingIsSuffixSum(route)

C6_StoppedPrunesLaterPositions ==
    (lastOp \in {"init", "evaluate"} /\ ~poisoned /\ TimeFeasible(route)) =>
        \A i \in Positions(route) : \A j \in Positions(route) :
            (i < j /\ EvaluateActivity(route, target, i) = Fail)
                => EvaluateActivity(route, target, j).violation

\* the place of every activity of r is the scenario's
IsScenarioRoute(r) ==
    /\ r.actor = ScenarioActor
    /\ Len(r.tour) = Len(ScenarioTour)
    /\ \A i \in 1..Len(r.tour) :
          /\ r.tour[i].loc = ScenarioTour[i].loc
          /\ r.tour[i].tws = ScenarioTour[i].tws
          /\ r.tour[i].twe = ScenarioTour[i].twe
          /\ r.tour[i].dur = ScenarioTour[i].dur
          /\ r.tour[i].job = ScenarioTour[i].job

\* C11: scenario 1.  After accept_route_state on the scenario's route the
\* activities after the start have arrivals 1, 16, 31, 56 and departures
\* 15, 21, 36, 61, the vehicle waits 9 at job 1, and the jobs' LATEST_ARRIVAL
\* values are 20, 35, 55.
C11_ScenarioSchedule ==
    (lastOp = "accept" /\ IsScenarioRoute(route)) =>
        /\ <<route.tour[2].arr, route.tour[3].arr, route.tour[4].arr, route.tour[5].arr>>
              = <<1, 16, 31, 56>>
        /\ <<route.tour[2].dep, route.tour[3].dep, route.tour[4].dep, route.tour[5].dep>>
              = <<15, 21, 36, 61>>
        /\ Max(0, route.tour[2].tws - route.tour[2].arr) = 9
        /\ \A i \in 2..4 : route.tour[i].has
        /\ <<route.tour[2].latest, route.tour[3].latest, route.tour[4].latest>>
              = <<20, 35, 55>>

\* C12: scenario 2.  On the scenario's route with its state computed,
\* evaluate_activity for a new job with window [0,5] at the last position
\* (prev = job 3, next = the end terminal) returns fail: a violation with
\* stopped = true.
C12_ScenarioInsertionFails ==
    (/\ lastOp = "evaluate"
     /\ IsScenarioRoute(route)
     /\ \A i \in 2..4 : route.tour[i].has
     /\ target \in ScenarioTargets
     /\ evalRes.pos = 4)
        => (fault = NoFault /\ evalRes.res = Fail)

\* the tour has a start terminal and the actor a start location
HasStart(r) == Len(r.tour) >= 1 /\ ~r.tour[1].job /\ r.actor.hasStart

\* C16: accept_route_state aborts with OP_START_MSG only when the route lacks
\* a start; on a route whose tour has a start terminal and whose actor has a
\* start location it returns normally, with the schedules and the state
\* written.
C16_PanicsOnlyWithoutStart ==
    lastOp = "accept" =>
        /\ fault = OP_START_MSG => ~HasStart(route)
        /\ HasStart(route) =>
              /\ fault = NoFault
              /\ route.tour = Derived(route.actor, route.tour)

\* C17: accept_solution_state leaves every route unchanged while jobs are
\* still required; once none is, it returns normally, having rescheduled each
\* route that has an activity: the start leaves no earlier than before and no
\* activity is reached later than before.
C17_RescheduleOnceComplete ==
    [][AcceptSolutionState =>
          IF required > 0
          THEN route' = route /\ fault' = NoFault
          ELSE /\ fault' = NoFault
               /\ Len(route'.tour) = Len(route.tour)
               /\ route'.tour[1].dep >= route.tour[1].dep
               /\ \A i \in 1..Len(route.tour) : route'.tour[i].arr <= route.tour[i].arr]_vars

LatestCoversArrival(r) ==
    \A i \in 1..Len(r.tour) :
        r.tour[i].job => (r.tour[i].has /\ r.tour[i].latest >= r.tour[i].arr)

\* C18: after accept_route_state the route, closed or open, is time-feasible
\* exactly when every job activity's LATEST_ARRIVAL is at least its arrival.
C18_FeasibleIffLatestCoversArrival ==
    lastOp = "accept" => (TimeFeasible(route) <=> LatestCoversArrival(route))

\* C19: after accept_route_state every activity after the start has
\* departure = max(arrival, time window start) + the activity's duration at
\* its arrival, and every activity has arrival <= departure.
C19_DepartureFromArrival ==
    lastOp = "accept" =>
        /\ \A i \in 2..Len(route.tour) :
              route.tour[i].dep = Max(route.tour[i].arr, route.tour[i].tws)
                                    + ActivityDuration(route.tour[i], route.tour[i].arr)
        /\ \A i \in 1..Len(route.tour) : route.tour[i].arr <= route.tour[i].dep

----------------------------------------------------------------------------
(* TimeSoftActivityConstraint *)

\* actor.vehicle.costs.per_waiting_time: a cost per unit of time
WaitingRates == {0, 1, 2}

NoCosts == [per_waiting_time |-> 0]

\* The injected cost oracles (timing.rs 260-267): the transport cost of a leg
\* is its distance, the cost of an activity the time it takes.
TransportCost(from, to, departure) == Abs(from - to)

ActivityCost(a, arrival) == ActivityDuration(a, arrival)

\* timing.rs 248-270
AnalyzeRouteLeg(start, end, time) ==
    LET arrival == time + TransportDuration(start.loc, end.loc, time)
        departure == Max(arrival, end.tws) + ActivityDuration(end, arrival)
    IN [tp_cost |-> TransportCost(start.loc, end.loc, time),
        act_cost |-> ActivityCost(end, arrival),
        dep_time |-> departure]

\* Tour::has_jobs
HasJobs(tour) == JobCount(tour) > 0

\* timing.rs 300: get_activity_state(WAITING_KEY, next).unwrap_or(&0.0)
WaitingTime(next) == IF next.has THEN next.waiting ELSE 0

\* timing.rs 305-306 without the cap by the stored waiting time
WaitingCostUncapped(waiting_time, dep_time_right, dep_time_old, per_waiting_time) ==
    Max(0, dep_time_right - dep_time_old) * per_waiting_time

\* timing.rs 305-306
WaitingCost(waiting_time, dep_time_right, dep_time_old, per_waiting_time) ==
    Min(waiting_time, Max(0, dep_time_right - dep_time_old)) * per_waiting_time

NoEstimate ==
    [pos |-> 0, credited |-> FALSE, cost |-> 0, new_costs |-> 0, old_costs |-> 0,
     waiting_cost |-> 0, dep_time_right |-> 0, dep_time_old |-> 0]

\* timing.rs 282-296: the estimate of an insertion that has no old leg to
\* compare with (no jobs yet, or no next)
EstimateNew(prev, tgt, hasNext, next) ==
    LET left == AnalyzeRouteLeg(prev, tgt, prev.dep)
        right == IF hasNext THEN AnalyzeRouteLeg(tgt, next, left.dep_time)
                 ELSE AnalyzeRouteLeg(tgt, tgt, left.dep_time)
    IN [new_costs |-> left.tp_cost + right.tp_cost + (left.act_cost + right.act_cost),
        dep_time_right |-> right.dep_time]

\* timing.rs 299-310: the estimate of a closed insertion into a route with jobs
EstimateAgainstOld(prev, tgt, next, per_waiting_time) ==
    LET new == EstimateNew(prev, tgt, TRUE, next)
        waiting_time == WaitingTime(next)
        old == AnalyzeRouteLeg(prev, next, prev.dep)
        waiting_cost == WaitingCost(waiting_time, new.dep_time_right, old.dep_time,
                                    per_waiting_time)
        old_costs == old.tp_cost + (old.act_cost + waiting_cost)
    IN [credited |-> TRUE, cost |-> new.new_costs - old_costs,
        new_costs |-> new.new_costs, old_costs |-> old_costs,
        waiting_cost |-> waiting_cost,
        dep_time_right |-> new.dep_time_right, dep_time_old |-> old.dep_time]

\* timing.rs 294-297
ReturnsNewCosts(r, p) == ~HasJobs(r.tour) \/ ~HasNext(r, p)

\* timing.rs 274-311.  ctx.state is read at line 300, on the path of a closed
\* insertion into a route with jobs only.
EstimateActivityCall(p) ==
    /\ p \in Positions(route)
    /\ lastOp' = "estimate"
    /\ IF ReturnsNewCosts(route, p)
       THEN LET new == EstimateNew(route.tour[p], target, HasNext(route, p), NextOf(route, p))
            IN /\ fault' = NoFault
               /\ estimate' = [NoEstimate EXCEPT !.pos = p, !.cost = new.new_costs,
                                                 !.new_costs = new.new_costs,
                                                 !.dep_time_right = new.dep_time_right]
       ELSE IF poisoned
       THEN /\ fault' = POISON_MSG
            /\ estimate' = NoEstimate
       ELSE /\ fault' = NoFault
            /\ estimate' = [pos |-> p] @@
                  EstimateAgainstOld(route.tour[p], target, NextOf(route, p),
                                     costs.per_waiting_time)
    /\ UNCHANGED <<route, target, evalRes, poisoned, runs, firstRun, required, costs>>

IdleEstimate ==
    /\ costs = NoCosts
    /\ estimate = NoEstimate

InitEstimate ==
    /\ costs \in [per_waiting_time : WaitingRates]
    /\ estimate = NoEstimate

\* C21: in the estimate of a closed insertion into a route with jobs, the
\* waiting credit subtracted from the cost is at least 0 and at most
\* state[WAITING][next] * per_waiting_time (WAITING taken as 0 when absent),
\* and it is 0 whenever the insertion does not delay the departure from next
\* (dep_R <= dep_O).
C21_WaitingCreditBounded ==
    estimate.credited =>
        LET next == route.tour[estimate.pos + 1]
            stored == IF next.has THEN next.waiting ELSE 0
        IN /\ 0 <= estimate.waiting_cost
           /\ estimate.waiting_cost <= stored * costs.per_waiting_time
           /\ estimate.dep_time_right <= estimate.dep_time_old
                 => estimate.waiting_cost = 0
           /\ estimate.cost = estimate.new_costs - estimate.old_costs
           /\ estimate.old_costs >= estimate.waiting_cost

\* an insertion that delays the departure from next by less than the waiting
\* stored for it has been estimated with a positive rate
C21_Witness ==
    /\ estimate.credited
    /\ estimate.waiting_cost > 0
    /\ estimate.waiting_cost
          < WaitingTime(route.tour[estimate.pos + 1]) * costs.per_waiting_time

----------------------------------------------------------------------------
(* StaticSelective: search fans the individuals out over the thread pool,  *)
(* mutate folds the selected mutations over a deep copy.  An insertion      *)
(* context is its objective value (cost, lower is better) and the           *)
(* individual it descends from (origin).                                    *)

NoResults == <<>>
NoContext == [origin |-> 0, cost |-> 0]
Queued == "queued"

Contexts(n) == [origin : 1..n, cost : 0..MaxCost]

\* InsertionContext::deep_copy
DeepCopy(c) == [origin |-> c.origin, cost |-> c.cost]

\* The allocations: those of the individuals handed to search, and the two
\* task idx uses in turn (its deep copy lives in the first; an output built
\* afresh takes the one its input does not occupy).
InputCell(idx) == <<0, idx>>
TaskCell(idx, k) == <<idx, k>>
NoCell == <<0, 0>>

FreshCell(idx, occupied) ==
    IF occupied = TaskCell(idx, 0) THEN TaskCell(idx, 1) ELSE TaskCell(idx, 0)

\* a context goes out of scope: its allocation is released unless an
\* individual handed to search still holds it
Drop(heap, at, inputs) ==
    IF at \in inputs THEN heap ELSE [x \in DOMAIN heap \ {at} |-> heap[x]]

\* a reference: the context read through it and the allocation it points to
Ref(c, at) == [v |-> c, cell |-> at]

InputRefs(inds) == [k \in 1..Len(inds) |-> Ref(inds[k], InputCell(k))]

\* static_selective.rs 73, as a mutant: the fold starts from the individual itself
FoldStartShared(insertion_ctx, copy) == insertion_ctx

\* static_selective.rs 73: the fold starts from insertion_ctx.deep_copy()
FoldStart(insertion_ctx, copy) == copy

\* problem.objective.total_order(a, b): the objective compares costs
TotalOrder(a, b) ==
    IF a.cost > b.cost THEN "Greater" ELSE IF a.cost < b.cost THEN "Less" ELSE "Equal"

\* static_selective.rs 26-30, as a mutant: every task is handed the first individual
SearchJobFirst(inds, idx) == inds[1]

\* static_selective.rs 26-30: task idx runs mutate on the idx-th individual
SearchJob(inds, idx) == inds[idx]

\* static_selective.rs 77-78, as a mutant: compared with the intermediate context
ExitsEarlyOnIntermediate(insertion_ctx, acc, new_insertion_ctx) ==
    TotalOrder(acc, new_insertion_ctx) = "Greater"

\* static_selective.rs 77-78: the new context is compared with the original
ExitsEarly(insertion_ctx, acc, new_insertion_ctx) ==
    TotalOrder(insertion_ctx, new_insertion_ctx) = "Greater"

\* static_selective.rs 75, as a mutant: every mutation is handed the original
MutationInputOriginal(insertion_ctx, acc) == insertion_ctx

\* static_selective.rs 74-75: the mutation is handed the fold's accumulator
MutationInput(insertion_ctx, acc) == acc

\* static_selective.rs 72, as a mutant: the predicate is shown the fold's accumulator
PredicateInputIntermediate(insertion_ctx, acc) == acc

\* static_selective.rs 72: the filter's closure calls probability(refinement_ctx,
\* insertion_ctx) with mutate's argument
PredicateInput(insertion_ctx, acc) == insertion_ctx

\* static_selective.rs 72: one evaluation of the predicate of entry[i]
Evaluation(i, selected) ==
    [entry |-> entry[i], selected |-> selected,
     input |-> PredicateInput(Ref(arg[i], InputCell(arg[i].origin)), Ref(ctx[i], cell[i]))]

\* parallel_into_collect: the results in the order of the tasks' indices
ParallelIntoCollect(done, n) ==
    [i \in 1..n |-> (CHOOSE d \in {done[k] : k \in 1..Len(done)} : d.idx = i).res]

IdleSelective ==
    /\ individuals = <<>>
    /\ task = <<>>
    /\ arg = <<>>
    /\ ctx = <<>>
    /\ entry = <<>>
    /\ applied = <<>>
    /\ received = <<>>
    /\ completed = <<>>
    /\ results = NoResults
    /\ store = <<>>
    /\ cell = <<>>
    /\ evaluated = <<>>

InitSelective ==
    /\ \E n \in 1..MaxIndividuals :
          /\ individuals \in {inds \in [1..n -> Contexts(n)] :
                                 \A i \in 1..n : inds[i].origin = i}
          /\ task = [i \in 1..n |-> Queued]
          /\ arg = [i \in 1..n |-> NoContext]
          /\ ctx = [i \in 1..n |-> NoContext]
          /\ entry = [i \in 1..n |-> 1]
          /\ applied = [i \in 1..n |-> <<>>]
          /\ received = [i \in 1..n |-> <<>>]
          /\ cell = [i \in 1..n |-> NoCell]
          /\ evaluated = [i \in 1..n |-> <<>>]
          /\ store = [at \in {InputCell(i) : i \in 1..n} |-> individuals[at[2]]]
    /\ completed = <<>>
    /\ results = NoResults

\* static_selective.rs 26-30 and 70-73: the pool starts task i; mutate takes its
\* deep copy of the individual
ThreadPoolExecute(i) ==
    /\ task[i] = Queued
    /\ task' = [task EXCEPT ![i] = "running"]
    /\ LET insertion_ctx == SearchJob(InputRefs(individuals), i)
           copy == Ref(DeepCopy(store[insertion_ctx.cell]), TaskCell(i, 0))
           init == FoldStart(insertion_ctx, copy)
       IN /\ arg' = [arg EXCEPT ![i] = insertion_ctx.v]
          /\ ctx' = [ctx EXCEPT ![i] = init.v]
          /\ cell' = [cell EXCEPT ![i] = init.cell]
          /\ store' = (init.cell :> init.v) @@ store
    /\ UNCHANGED <<individuals, entry, applied, received, completed, results, evaluated>>

\* static_selective.rs 72: the filter's predicate rejects the entry
FilterSkips(i) ==
    /\ task[i] = "running"
    /\ entry[i] <= GroupSize
    /\ entry' = [entry EXCEPT ![i] = @ + 1]
    /\ evaluated' = [evaluated EXCEPT ![i] = Append(@, Evaluation(i, FALSE))]
    /\ UNCHANGED <<individuals, task, arg, ctx, applied, received, completed, results, store, cell>>

\* static_selective.rs 72-85: the predicate selects the entry, its mutation
\* turns the accumulator into a context of cost c.  A mutation either builds
\* its output in an allocation of its own, or works in place: it rewrites the
\* state of the context it was handed and returns a context sharing it.
MutationApplied(i, c, in_place) ==
    /\ task[i] = "running"
    /\ entry[i] <= GroupSize
    /\ LET handed == MutationInput(Ref(arg[i], InputCell(arg[i].origin)), Ref(ctx[i], cell[i]))
           input == handed.v
           new_insertion_ctx == [origin |-> input.origin, cost |-> c]
           at == IF in_place THEN handed.cell ELSE FreshCell(i, cell[i])
           inputs == {InputCell(k) : k \in 1..Len(individuals)}
       IN /\ applied' = [applied EXCEPT ![i] = Append(@, new_insertion_ctx)]
          /\ received' = [received EXCEPT
                             ![i] = Append(@, [entry |-> entry[i], input |-> input])]
          /\ ctx' = [ctx EXCEPT ![i] = new_insertion_ctx]
          /\ cell' = [cell EXCEPT ![i] = at]
          /\ store' = (at :> new_insertion_ctx) @@
                          (IF at = cell[i] THEN store ELSE Drop(store, cell[i], inputs))
          /\ IF ExitsEarly(arg[i], ctx[i], new_insertion_ctx)
             THEN /\ task' = [task EXCEPT ![i] = "exited"]
                  /\ UNCHANGED entry
             ELSE /\ entry' = [entry EXCEPT ![i] = @ + 1]
                  /\ UNCHANGED task
    /\ evaluated' = [evaluated EXCEPT ![i] = Append(@, Evaluation(i, TRUE))]
    /\ UNCHANGED <<individuals, arg, completed, results>>

\* static_selective.rs 71, 86-87: unwrap_from_result hands back the Err of an
\* early exit or the Ok of the finished fold
MutateReturns(i) ==
    /\ \/ task[i] = "exited"
       \/ task[i] = "running" /\ entry[i] > GroupSize
    /\ task' = [task EXCEPT ![i] = "returned"]
    /\ completed' = Append(completed, [idx |-> i, res |-> ctx[i], cell |-> cell[i]])
    /\ UNCHANGED <<individuals, arg, ctx, entry, applied, received, results, store, cell,
                   evaluated>>

\* static_selective.rs 25-32: search returns what parallel_into_collect gathered
SearchReturns ==
    /\ results = NoResults
    /\ \A i \in 1..Len(individuals) : task[i] = "returned"
    /\ results' = ParallelIntoCollect(completed, Len(individuals))
    /\ UNCHANGED <<individuals, task, arg, ctx, entry, applied, received, completed, store, cell,
                   evaluated>>

\* what the mutation chain has made of individual i so far
ChainOutcome(i) ==
    IF applied[i] = <<>> THEN individuals[i] ELSE applied[i][Len(applied[i])]

ImprovesOriginal(i, k) == TotalOrder(individuals[i], applied[i][k]) = "Greater"

\* C7: early exit of StaticSelective.  While one individual is processed, a
\* mutation output that is strictly better than the original individual is the
\* last mutation applied and is the context returned for the individual; and an
\* early exit is taken only for an output strictly better than the original,
\* not merely better than the intermediate context.
C7_EarlyExitOnImprovement ==
    \A i \in 1..Len(individuals) :
        /\ \A k \in 1..Len(applied[i]) :
              ImprovesOriginal(i, k) =>
                 /\ k = Len(applied[i])
                 /\ task[i] \in {"exited", "returned"}
                 /\ ctx[i] = applied[i][k]
                 /\ results # NoResults => results[i] = applied[i][k]
        /\ task[i] = "exited" =>
              /\ applied[i] # <<>>
              /\ ImprovesOriginal(i, Len(applied[i]))

\* search has returned; for some individual the first mutation applied did not
\* improve on the original, the second did, and a later entry of the group
\* was left unapplied.
C7_Witness ==
    /\ results # NoResults
    /\ \E i \in 1..Len(individuals) :
          /\ Len(applied[i]) = 2
          /\ ~ImprovesOriginal(i, 1)
          /\ ImprovesOriginal(i, 2)
          /\ entry[i] < GroupSize
          /\ results[i] = applied[i][2]

\* C8: search returns exactly one result per input individual, and the result
\* at index i is the outcome of the mutation chain run on individual i, in
\* whatever order the workers ran and finished.
C8_ResultPerIndividualIndex ==
    results # NoResults =>
        /\ Len(results) = Len(individuals)
        /\ \A i \in 1..Len(individuals) :
              /\ results[i] = ChainOutcome(i)
              /\ results[i].origin = i

\* search has returned for two individuals whose tasks finished in the reverse
\* of their index order, with a mutation applied to each.
C8_Witness ==
    /\ results # NoResults
    /\ Len(individuals) = 2
    /\ completed[1].idx = 2
    /\ applied[1] # <<>>
    /\ applied[2] # <<>>
    /\ results[1] # results[2]

\* C20: within one chain the selected mutations run in declared order, the
\* first on a deep copy of the individual and each later one on the output of
\* the one before; when no output strictly improves on the original the
\* result is the output of the last selected mutation, and when none is
\* selected it is an unmodified copy of the individual.
C20_ChainRunsInDeclaredOrder ==
    \A i \in 1..Len(individuals) :
        /\ Len(received[i]) = Len(applied[i])
        /\ \A k \in 1..Len(received[i]) :
              /\ received[i][k].entry \in 1..GroupSize
              /\ k > 1 => received[i][k - 1].entry < received[i][k].entry
              /\ received[i][k].input =
                    IF k = 1 THEN individuals[i] ELSE applied[i][k - 1]
        /\ (results # NoResults /\ \A k \in 1..Len(applied[i]) : ~ImprovesOriginal(i, k)) =>
              /\ entry[i] > GroupSize
              /\ results[i] = IF applied[i] = <<>> THEN individuals[i]
                              ELSE applied[i][Len(applied[i])]

\* search has returned; one chain applied the first and the last entry of the
\* group with different outputs, none better than the original, and another
\* chain had no mutation selected.
C20_Witness ==
    /\ results # NoResults
    /\ \E i \in 1..Len(individuals) :
          /\ Len(applied[i]) = 2
          /\ received[i][1].entry = 1
          /\ received[i][2].entry = GroupSize
          /\ applied[i][1] # applied[i][2]
          /\ applied[i][1] # individuals[i]
          /\ \A k \in 1..2 : ~ImprovesOriginal(i, k)
          /\ results[i] = applied[i][2]
    /\ \E i \in 1..Len(individuals) :
          applied[i] = <<>> /\ results[i] = individuals[i]

\* the allocations of the input individuals
InputCells == {InputCell(i) : i \in 1..Len(individuals)}

\* the allocation the result returned for index i lives in
ResultCell(i) ==
    (CHOOSE d \in {completed[k] : k \in 1..Len(completed)} : d.idx = i).cell

\* C22: search never modifies the input individuals.  Each worker writes only
\* to its own deep copy and to what it built from it, so at every moment, and
\* after search, every input individual holds the value it had before the
\* call, and no returned result shares its allocation with another result or
\* with an input.
C22_InputsUntouched ==
    /\ \A i \in 1..Len(individuals) : store[InputCell(i)] = individuals[i]
    /\ \A i \in 1..Len(individuals) :
          task[i] # Queued =>
             /\ cell[i] \notin InputCells
             /\ cell[i][1] = i
             /\ store[cell[i]] = ctx[i]
    /\ results # NoResults =>
          \A i \in 1..Len(individuals) :
             /\ ResultCell(i) \notin InputCells
             /\ store[ResultCell(i)] = results[i]
             /\ \A j \in 1..Len(individuals) : j # i => ResultCell(j) # ResultCell(i)

\* search has returned for two individuals, one mutation applied to each:
\* one result is the deep copy, rewritten in place to a value other than the
\* individual's; the other was built by the mutation in an allocation of its
\* own.
C22_Witness ==
    /\ results # NoResults
    /\ Len(individuals) = 2
    /\ \E i \in 1..2 :
          /\ Len(applied[i]) = 1
          /\ ResultCell(i) = TaskCell(i, 0)
          /\ results[i] # individuals[i]
    /\ \E i \in 1..2 :
          /\ Len(applied[i]) = 1
          /\ ResultCell(i) = TaskCell(i, 1)

\* the entries whose predicate selected them, in the order of evaluation
RECURSIVE SelectedEntries(_)
SelectedEntries(evals) ==
    IF evals = <<>> THEN <<>>
    ELSE (IF Head(evals).selected THEN <<Head(evals).entry>> ELSE <<>>)
            \o SelectedEntries(Tail(evals))

\* C25: in a chain every probability predicate is evaluated on the original
\* individual, never on the intermediate context; the predicates are
\* evaluated one by one in the declared order, each only once the mutations
\* selected before it have run, and the selected entry's mutation runs before
\* the next predicate is evaluated; after an early exit no predicate of a
\* later entry is evaluated, so no further random draw is made for the
\* individual.
C25_PredicatesOnOriginalAndLazy ==
    \A i \in 1..Len(individuals) :
        /\ \A k \in 1..Len(evaluated[i]) :
              /\ evaluated[i][k].entry = k
              /\ evaluated[i][k].input = Ref(individuals[i], InputCell(i))
        /\ SelectedEntries(evaluated[i]) =
              [k \in 1..Len(received[i]) |-> received[i][k].entry]
        /\ task[i] = "running" => Len(evaluated[i]) = entry[i] - 1
        /\ task[i] \in {"exited", "returned"} =>
              IF applied[i] # <<>> /\ ImprovesOriginal(i, Len(applied[i]))
              THEN Len(evaluated[i]) = received[i][Len(received[i])].entry
              ELSE Len(evaluated[i]) = GroupSize

\* search has returned; in one chain the first predicate rejected its entry,
\* the second entry's mutation left a context other than the original, the
\* third predicate was then evaluated and its mutation ended the chain early;
\* in another the first mutation ended the chain and no later predicate was
\* evaluated.
C25_Witness ==
    /\ results # NoResults
    /\ GroupSize >= 3
    /\ \E i \in 1..Len(individuals) :
          /\ Len(evaluated[i]) = 3
          /\ ~evaluated[i][1].selected
          /\ evaluated[i][2].selected
          /\ applied[i][1] # individuals[i]
          /\ evaluated[i][3].selected
          /\ ImprovesOriginal(i, 2)
    /\ \E i \in 1..Len(individuals) :
          /\ Len(evaluated[i]) = 1
          /\ ImprovesOriginal(i, 1)

----------------------------------------------------------------------------
(* Simulator: run_episodes runs one episode per agent against the shared,   *)
(* read-only q and then merges the agents' q_new maps into q.               *)

\* The agents' world: from A action a1 leads to B (reward 1) and a2 to the
\* terminal T; from B action a1 leads back to A and a2 to T.  T offers no action.
SimStates == {"A", "B", "T"}
SimActions == {"a1", "a2"}
Agents == 1..NumAgents

\* Agent::get_actions
GetActions(s) == IF s = "T" THEN <<>> ELSE [a \in SimActions |-> 0]

\* Agent::take_action
TakeAction(s, a) ==
    IF s = "A" /\ a = "a1" THEN "B"
    ELSE IF s = "B" /\ a = "a1" THEN "A"
    ELSE "T"

\* State::reward
Reward(s) == IF s = "B" THEN 1 ELSE 0

MaxOf(estimates) ==
    IF DOMAIN estimates = {} THEN 0
    ELSE LET vs == {estimates[a] : a \in DOMAIN estimates}
         IN CHOOSE v \in vs : \A w \in vs : w <= v

\* LearningStrategy::value: the reward plus the best estimate of the new state
LearningValue(reward_value, old_value, new_estimates) ==
    reward_value + MaxOf(new_estimates)

RECURSIVE SeqSum(_)
SeqSum(values) == IF values = <<>> THEN 0 ELSE Head(values) + SeqSum(Tail(values))

RECURSIVE SeqMax(_)
SeqMax(values) ==
    IF Len(values) = 1 THEN Head(values) ELSE Max(Head(values), SeqMax(Tail(values)))

\* the reduce closure handed to run_episodes
Reduce(values) == IF reduceBy = "sum" THEN SeqSum(values) ELSE SeqMax(values)

\* HashMap::insert
Put(f, k, v) == [x \in DOMAIN f \cup {k} |-> IF x = k THEN v ELSE f[x]]

\* simulator.rs 37, as a mutant: an episode reads q with the other episodes'
\* values merged in
EpisodeQMerged(qq, qs) ==
    [s \in DOMAIN qq \cup UNION {DOMAIN qs[i] : i \in 1..Len(qs)} |->
        IF \E i \in 1..Len(qs) : s \in DOMAIN qs[i]
        THEN qs[CHOOSE i \in 1..Len(qs) :
                   /\ s \in DOMAIN qs[i]
                   /\ \A k \in 1..Len(qs) : s \in DOMAIN qs[k] => k <= i][s]
        ELSE qq[s]]

\* simulator.rs 37: every episode is handed &self.q
EpisodeQ(qq, qs) == qq

\* simulator.rs 88, as a mutant: the state is entered with no estimates
CopyNoEstimates(estimates) == <<>>

\* simulator.rs 88: estimates.iter().map(|(s, v)| (s.clone(), *v)).collect()
CopyEstimates(estimates) == [a \in DOMAIN estimates |-> estimates[a]]

\* simulator.rs 85-93, as a mutant: the entry is written whether or not it exists
EnsureActionsOverwriting(q_new, qq, state) ==
    IF state \in DOMAIN qq THEN Put(q_new, state, qq[state])
    ELSE Put(q_new, state, GetActions(state))

\* simulator.rs 85-93
EnsureActions(q_new, qq, state) ==
    IF state \in DOMAIN q_new THEN q_new
    ELSE IF state \in DOMAIN qq THEN Put(q_new, state, CopyEstimates(qq[state]))
    ELSE Put(q_new, state, GetActions(state))

\* simulator.rs 96-98: the keys of a vector of maps, and the values found under
\* one key, in the vector's order
MergedKeys(vec_map) == UNION {DOMAIN vec_map[i] : i \in 1..Len(vec_map)}

RECURSIVE GroupedFrom(_, _, _)
GroupedFrom(vec_map, key, i) ==
    IF i > Len(vec_map) THEN <<>>
    ELSE (IF key \in DOMAIN vec_map[i] THEN <<vec_map[i][key]>> ELSE <<>>)
            \o GroupedFrom(vec_map, key, i + 1)

\* simulator.rs 96-98, as a mutant: only the first map holding the key is kept
GroupedFirstOnly(vec_map, key) == <<Head(GroupedFrom(vec_map, key, 1))>>

Grouped(vec_map, key) == GroupedFrom(vec_map, key, 1)

\* simulator.rs 42-44: action_values.insert(action, reduce(values)) per action
MergeActions(action_values, values) ==
    [a \in DOMAIN action_values \cup MergedKeys(values) |->
        IF a \in MergedKeys(values) THEN Reduce(Grouped(values, a))
        ELSE action_values[a]]

\* simulator.rs 40-45
MergeQ(qq, qs) ==
    [s \in DOMAIN qq \cup MergedKeys(qs) |->
        IF s \in MergedKeys(qs)
        THEN MergeActions(IF s \in DOMAIN qq THEN qq[s] ELSE <<>>, Grouped(qs, s))
        ELSE qq[s]]

IdleSimulator ==
    /\ q = <<>>
    /\ qBefore = <<>>
    /\ reduceBy = "sum"
    /\ phase = "off"
    /\ round = 0
    /\ agState = [ag \in Agents |-> "T"]
    /\ qNew = [ag \in Agents |-> <<>>]
    /\ pc = [ag \in Agents |-> "done"]
    /\ oldState = [ag \in Agents |-> "T"]
    /\ action = [ag \in Agents |-> "a1"]
    /\ oldValue = [ag \in Agents |-> 0]
    /\ steps = [ag \in Agents |-> 0]

\* simulator.rs 19-23: Simulator::new starts from an empty q
InitSimulator ==
    /\ q = <<>>
    /\ qBefore = <<>>
    /\ reduceBy \in {"sum", "max"}
    /\ phase = "idle"
    /\ round = 0
    /\ agState = [ag \in Agents |-> "T"]
    /\ qNew = [ag \in Agents |-> <<>>]
    /\ pc = [ag \in Agents |-> "done"]
    /\ oldState = [ag \in Agents |-> "T"]
    /\ action = [ag \in Agents |-> "a1"]
    /\ oldValue = [ag \in Agents |-> 0]
    /\ steps = [ag \in Agents |-> 0]

\* simulator.rs 35-39: run_episodes hands each agent to run_episode (line 54:
\* q_new starts empty)
RunEpisodes ==
    /\ phase \in {"idle", "merged"}
    /\ round < MaxRounds
    /\ round' = round + 1
    /\ phase' = "episodes"
    /\ agState' \in [Agents -> {"A", "B"}]
    /\ qNew' = [ag \in Agents |-> <<>>]
    /\ pc' = [ag \in Agents |-> "top"]
    /\ steps' = [ag \in Agents |-> 0]
    /\ UNCHANGED <<q, qBefore, reduceBy, oldState, action, oldValue>>

\* simulator.rs 57-58
EnsureOldState(ag) ==
    /\ phase = "episodes"
    /\ pc[ag] = "top"
    /\ oldState' = [oldState EXCEPT ![ag] = agState[ag]]
    /\ qNew' = [qNew EXCEPT ![ag] = EnsureActions(@, EpisodeQ(q, qNew), agState[ag])]
    /\ pc' = [pc EXCEPT ![ag] = "select"]
    /\ UNCHANGED <<q, qBefore, reduceBy, phase, round, agState, action, oldValue, steps>>

\* simulator.rs 59-64: the policy offers no action (no estimates, or it ends
\* the episode after MaxSteps actions)
PolicySelectsNone(ag) ==
    /\ phase = "episodes"
    /\ pc[ag] = "select"
    /\ DOMAIN qNew[ag][oldState[ag]] = {} \/ steps[ag] >= MaxSteps
    /\ pc' = [pc EXCEPT ![ag] = "done"]
    /\ UNCHANGED <<q, qBefore, reduceBy, phase, round, agState, qNew, oldState,
                   action, oldValue, steps>>

\* simulator.rs 59-68: the policy selects an action and the agent takes it
PolicySelects(ag, a) ==
    /\ phase = "episodes"
    /\ pc[ag] = "select"
    /\ steps[ag] < MaxSteps
    /\ a \in DOMAIN qNew[ag][oldState[ag]]
    /\ action' = [action EXCEPT ![ag] = a]
    /\ agState' = [agState EXCEPT ![ag] = TakeAction(@, a)]
    /\ oldValue' = [oldValue EXCEPT ![ag] = qNew[ag][oldState[ag]][a]]
    /\ steps' = [steps EXCEPT ![ag] = @ + 1]
    /\ pc' = [pc EXCEPT ![ag] = "ensure_next"]
    /\ UNCHANGED <<q, qBefore, reduceBy, phase, round, qNew, oldState>>

\* simulator.rs 70-73
EnsureNextState(ag) ==
    /\ phase = "episodes"
    /\ pc[ag] = "ensure_next"
    /\ qNew' = [qNew EXCEPT ![ag] = EnsureActions(@, EpisodeQ(q, qNew), agState[ag])]
    /\ pc' = [pc EXCEPT ![ag] = "learn"]
    /\ UNCHANGED <<q, qBefore, reduceBy, phase, round, agState, oldState, action,
                   oldValue, steps>>

\* simulator.rs 74-79
Learn(ag) ==
    /\ phase = "episodes"
    /\ pc[ag] = "learn"
    /\ LET new_value == LearningValue(Reward(agState[ag]), oldValue[ag],
                                      qNew[ag][agState[ag]])
       IN qNew' = [qNew EXCEPT ![ag][oldState[ag]][action[ag]] = new_value]
    /\ pc' = [pc EXCEPT ![ag] = "top"]
    /\ UNCHANGED <<q, qBefore, reduceBy, phase, round, agState, oldState, action,
                   oldValue, steps>>

\* simulator.rs 40-45: all episodes are collected, then q is merged
MergeEpisodes ==
    /\ phase = "episodes"
    /\ \A ag \in Agents : pc[ag] = "done"
    /\ qBefore' = q
    /\ q' = MergeQ(q, [ag \in Agents |-> qNew[ag]])
    /\ phase' = "merged"
    /\ UNCHANGED <<reduceBy, round, agState, qNew, pc, oldState, action, oldValue, steps>>


\* the q_new values the agents hold for (s, a), in the agents' order
DeltaValues(s, a) ==
    LET has(ag) == s \in DOMAIN qNew[ag] /\ a \in DOMAIN qNew[ag][s]
        from[i \in 1..(NumAgents + 1)] ==
            IF i > NumAgents THEN <<>>
            ELSE (IF has(i) THEN <<qNew[i][s][a]>> ELSE <<>>) \o from[i + 1]
    IN from[1]

\* C9: after run_episodes, for every (state, action) that appears in some
\* agent's q_new, Q[state][action] is reduce applied to the list of all q_new
\* values for that state and action across the agents; every Q entry whose
\* (state, action) is in no q_new keeps the value it had before.
C9_MergeReducesAllDeltas ==
    phase = "merged" =>
        /\ \A s \in SimStates : \A a \in SimActions :
              IF DeltaValues(s, a) # <<>>
              THEN /\ s \in DOMAIN q
                   /\ a \in DOMAIN q[s]
                   /\ q[s][a] = Reduce(DeltaValues(s, a))
              ELSE (s \in DOMAIN qBefore /\ a \in DOMAIN qBefore[s]) =>
                      /\ s \in DOMAIN q
                      /\ a \in DOMAIN q[s]
                      /\ q[s][a] = qBefore[s][a]
        /\ \A s \in DOMAIN q : \A a \in DOMAIN q[s] :
              \/ DeltaValues(s, a) # <<>>
              \/ s \in DOMAIN qBefore /\ a \in DOMAIN qBefore[s]

\* A second merge has been made in which both agents hold a value for one
\* (state, action), the reduced value is neither agent's, and an entry learned
\* in the first round is in no q_new.
C9_Witness ==
    /\ phase = "merged"
    /\ round = 2
    /\ \E s \in SimStates, a \in SimActions :
          /\ Len(DeltaValues(s, a)) = 2
          /\ q[s][a] # DeltaValues(s, a)[1]
          /\ q[s][a] # DeltaValues(s, a)[2]
    /\ \E s \in DOMAIN qBefore :
          /\ \A ag \in Agents : s \notin DOMAIN qNew[ag]
          /\ \E a \in DOMAIN qBefore[s] : qBefore[s][a] # 0

\* C10: ensure_actions(s).  A step that calls it for state s leaves q_new as it
\* is when q_new already has s; otherwise it adds one entry for s, equal to
\* Q[s] when Q has s and to get_actions(s) when not, and changes no other entry.
C10_EnsureActionsNeverOverwrites ==
    [][\A ag \in Agents :
          (EnsureOldState(ag) \/ EnsureNextState(ag)) =>
             LET s == agState[ag]
             IN IF s \in DOMAIN qNew[ag]
                THEN qNew'[ag] = qNew[ag]
                ELSE /\ DOMAIN qNew'[ag] = DOMAIN qNew[ag] \cup {s}
                     /\ \A t \in DOMAIN qNew[ag] : qNew'[ag][t] = qNew[ag][t]
                     /\ qNew'[ag][s] = IF s \in DOMAIN q THEN q[s] ELSE GetActions(s)]_vars

\* An agent is back in a state it has learned a value for in this episode,
\* ensure_actions has run for that state again, and the learned value, which
\* differs from both Q's and get_actions', is still in q_new; in the same
\* episode an entry was copied from a Q that differs from get_actions.
C10_Witness ==
    \E ag \in Agents :
        /\ phase = "episodes"
        /\ pc[ag] = "select"
        /\ steps[ag] >= 2
        /\ LET s == oldState[ag]
           IN /\ s \in DOMAIN q
              /\ qNew[ag][s] # q[s]
              /\ qNew[ag][s] # GetActions(s)
              /\ q[s] # GetActions(s)

IdleEpisodes ==
    /\ snapshot = <<>>
    /\ startState = [ag \in Agents |-> "T"]
    /\ chosen = [ag \in Agents |-> <<>>]

\* simulator.rs 54-82 as one sequential run: the q_new of an episode that
\* starts in state s with q_new so far, reads qq, and in which the policy
\* selects the actions of choices and then none
RECURSIVE RunEpisode(_, _, _, _)
RunEpisode(qq, q_new, s, choices) ==
    LET ensured == EnsureActions(q_new, qq, s)
    IN IF choices = <<>> THEN ensured
       ELSE LET a == Head(choices)
                next_state == TakeAction(s, a)
                old_value == ensured[s][a]
                with_next == EnsureActions(ensured, qq, next_state)
                new_value == LearningValue(Reward(next_state), old_value,
                                           with_next[next_state])
            IN RunEpisode(qq, [with_next EXCEPT ![s][a] = new_value],
                          next_state, Tail(choices))

\* the states an episode passes through, in order
RECURSIVE PathFrom(_, _)
PathFrom(s, choices) ==
    IF choices = <<>> THEN <<s>>
    ELSE <<s>> \o PathFrom(TakeAction(s, Head(choices)), Tail(choices))

Path(ag) == PathFrom(startState[ag], chosen[ag])

Visited(ag) == {Path(ag)[k] : k \in 1..Len(Path(ag))}

Took(ag, s, a) ==
    \E k \in 1..Len(chosen[ag]) : Path(ag)[k] = s /\ chosen[ag][k] = a

\* C23: while the agents' episodes run, q is only read: it stays the snapshot
\* run_episodes began with, and what each agent has in q_new, and the state it
\* is in, is what its episode run alone against that snapshot gives for the
\* actions its policy selected.  The q the merge leaves is therefore the same
\* for every interleaving of the agents' steps: for each (state, action) in
\* some episode's result it is reduce of the agents' values, every other
\* entry is the snapshot's.
C23_EpisodesReadOneSnapshot ==
    /\ phase = "episodes" =>
          /\ q = snapshot
          /\ \A ag \in Agents :
                pc[ag] \in {"select", "done"} =>
                   /\ qNew[ag] = RunEpisode(snapshot, <<>>, startState[ag], chosen[ag])
                   /\ agState[ag] = Path(ag)[Len(Path(ag))]
    /\ phase = "merged" =>
          LET alone == [ag \in Agents |-> RunEpisode(snapshot, <<>>, startState[ag], chosen[ag])]
              keys == UNION {DOMAIN alone[ag] : ag \in Agents}
          IN /\ DOMAIN q = DOMAIN snapshot \cup keys
             /\ \A s \in DOMAIN q :
                   IF s \in keys
                   THEN \A a \in DOMAIN q[s] :
                           LET holders == {ag \in Agents : s \in DOMAIN alone[ag]
                                                            /\ a \in DOMAIN alone[ag][s]}
                               values == [k \in 1..Cardinality(holders) |->
                                            alone[CHOOSE ag \in holders :
                                                     Cardinality({h \in holders : h <= ag}) = k][s][a]]
                           IN IF holders # {} THEN q[s][a] = Reduce(values)
                              ELSE q[s][a] = snapshot[s][a]
                   ELSE q[s] = snapshot[s]

\* A second run_episodes call has been merged in which both agents passed
\* through one state, starting from different states, and learned different
\* values for one of its actions from a snapshot that held learned values.
C23_Witness ==
    /\ phase = "merged"
    /\ round = 2
    /\ startState[1] # startState[2]
    /\ snapshot # <<>>
    /\ \E s \in DOMAIN snapshot : \E a \in DOMAIN snapshot[s] : snapshot[s][a] # 0
    /\ \E s \in SimStates, a \in SimActions :
          /\ s \in Visited(1) /\ s \in Visited(2)
          /\ Took(1, s, a) /\ Took(2, s, a)
          /\ qNew[1][s][a] # qNew[2][s][a]

\* the list handed to reduce for (s, a) by the merge of lines 40-45
ReduceArgs(qs, s, a) == Grouped(Grouped(qs, s), a)

\* C24: in the merge, the list handed to reduce for (state, action) holds one
\* value per agent whose episode visited the state; an agent that never took
\* the action there contributes the value it copied from the old q, or from
\* get_actions when the old q lacks the state.
C24_ReduceGetsOneValuePerVisitor ==
    phase = "merged" =>
        \A s \in SimStates : \A a \in DOMAIN GetActions(s) :
            LET visitors == {ag \in Agents : s \in Visited(ag)}
                args == ReduceArgs(qNew, s, a)
                rank(ag) == Cardinality({v \in visitors : v <= ag})
            IN /\ Len(args) = Cardinality(visitors)
               /\ visitors # {} => q[s][a] = Reduce(args)
               /\ \A ag \in visitors :
                     ~Took(ag, s, a) =>
                        args[rank(ag)] = IF s \in DOMAIN snapshot THEN snapshot[s][a]
                                         ELSE GetActions(s)[a]

\* A merge has been made after episodes in which one agent took an action in
\* a state the other agent visited without taking it, the old q holding a
\* learned value for it that the first agent's update replaced.
C24_Witness ==
    /\ phase = "merged"
    /\ \E s \in DOMAIN snapshot : \E a \in DOMAIN snapshot[s] :
          /\ snapshot[s][a] # 0
          /\ s \in Visited(1) /\ s \in Visited(2)
          /\ Took(1, s, a) /\ ~Took(2, s, a)
          /\ ReduceArgs(qNew, s, a) = <<qNew[1][s][a], snapshot[s][a]>>
          /\ qNew[1][s][a] # snapshot[s][a]

----------------------------------------------------------------------------
(* The context-aware mutation probability of the static selective          *)
(* hyper-heuristic.  A probability is a multiple of 1/ProbScale; the random *)
(* source draws one of ProbScale equally likely values.                     *)

SelectionPhases == {"Initial", "Exploration", "Exploitation"}
Probabilities == 0..ProbScale
Rolls == 0..(ProbScale - 1)
Thresholds == 0..MaxThreshold

\* Random::is_hit: the draw falls below the probability
IsHit(probability, roll) == roll < probability

\* static_selective.rs 164: the phases argument, a vector of (phase, probability)
PhaseVectors ==
    UNION {[1..n -> SelectionPhases \X Probabilities] : n \in 0..MaxPhases}

\* static_selective.rs 167: collect into a HashMap, a later entry replacing an
\* earlier one of the same phase
RECURSIVE CollectFrom(_, _, _)
CollectFrom(vec, k, map) ==
    IF k > Len(vec) THEN map
    ELSE CollectFrom(vec, k + 1,
                     [ph \in DOMAIN map \cup {vec[k][1]} |->
                         IF ph = vec[k][1] THEN vec[k][2] ELSE map[ph]])

Collect(vec) == CollectFrom(vec, 1, <<>>)

\* static_selective.rs 169-170, as a mutant: a size equal to its threshold
\* counts as below it
BelowOrAtThresholds(jobs_size, routes_len, jobs_threshold, routes_threshold) ==
    jobs_size <= jobs_threshold \/ routes_len <= routes_threshold

\* static_selective.rs 169-170
BelowThresholds(jobs_size, routes_len, jobs_threshold, routes_threshold) ==
    jobs_size < jobs_threshold \/ routes_len < routes_threshold

\* static_selective.rs 176: phases.get(..).cloned().unwrap_or(0.)
PhaseProbability(phases, selection_phase) ==
    IF selection_phase \in DOMAIN phases THEN phases[selection_phase] ELSE 0

NoCall == [called |-> FALSE, jobs |-> 0, routes |-> 0, phase |-> "Initial", roll |-> 0]

IdlePredicate ==
    /\ predConfig = [jobs_threshold |-> 0, routes_threshold |-> 0, phases |-> <<>>]
    /\ predCall = NoCall
    /\ predResult = FALSE
    /\ consulted = FALSE

\* static_selective.rs 161-167
InitPredicate ==
    /\ predConfig \in [jobs_threshold : Thresholds, routes_threshold : Thresholds,
                       phases : PhaseVectors]
    /\ predCall = NoCall
    /\ predResult = FALSE
    /\ consulted = FALSE

\* static_selective.rs 168-179: the closure, called for a problem of jobs_size
\* jobs, an individual of routes_len routes and a population in
\* selection_phase; roll is what the random source draws if asked
ContextMutationProbability(jobs_size, routes_len, selection_phase, roll) ==
    /\ predCall' = [called |-> TRUE, jobs |-> jobs_size, routes |-> routes_len,
                    phase |-> selection_phase, roll |-> roll]
    /\ IF BelowThresholds(jobs_size, routes_len,
                          predConfig.jobs_threshold, predConfig.routes_threshold)
       THEN /\ predResult' = FALSE
            /\ consulted' = FALSE
       ELSE /\ predResult' =
                  IsHit(PhaseProbability(Collect(predConfig.phases), selection_phase), roll)
            /\ consulted' = TRUE
    /\ UNCHANGED predConfig

\* the phase has an entry in the phases argument, and p is its last one
ConfiguredFor(selection_phase, p) ==
    \E k \in 1..Len(predConfig.phases) :
        /\ predConfig.phases[k] = <<selection_phase, p>>
        /\ \A j \in (k + 1)..Len(predConfig.phases) :
              predConfig.phases[j][1] # selection_phase

\* C14: the context-aware predicate returns false, without asking the random
\* source, when the problem has fewer jobs than jobs_threshold or the
\* individual fewer routes than routes_threshold; otherwise it returns
\* random.is_hit(p) for the probability p configured for the population's
\* selection phase.
C14_ContextPredicate ==
    predCall.called =>
        IF \/ predCall.jobs < predConfig.jobs_threshold
           \/ predCall.routes < predConfig.routes_threshold
        THEN ~predResult /\ ~consulted
        ELSE \A p \in Probabilities :
                ConfiguredFor(predCall.phase, p) =>
                    (consulted /\ predResult = IsHit(p, predCall.roll))

\* The predicate was called with both sizes exactly at their thresholds for a
\* phase configured with a probability strictly between 0 and 1, and hit.
C14_Witness ==
    /\ predCall.called
    /\ predConfig.jobs_threshold > 0
    /\ predCall.jobs = predConfig.jobs_threshold
    /\ predConfig.routes_threshold > 0
    /\ predCall.routes = predConfig.routes_threshold
    /\ \E p \in 1..(ProbScale - 1) : ConfiguredFor(predCall.phase, p)
    /\ predResult

----------------------------------------------------------------------------
(* check_limits of the solution checker: the tour of a vehicle against the  *)
(* limits of its vehicle type.                                              *)

None == [some |-> FALSE, v |-> 0]
Some(v) == [some |-> TRUE, v |-> v]

LimitValues == {2, 10}
TourSizeValues == {2}
StatisticValues == {1, 2, 3, 9, 10, 11}

\* VehicleType.limits: no limits at all, or max_distance, shift_time, tour_size
NoLimits == [has |-> FALSE, max_distance |-> None, shift_time |-> None, tour_size |-> None]
VehicleLimits ==
    {NoLimits} \cup
    [has : {TRUE},
     max_distance : {None} \cup {Some(v) : v \in LimitValues},
     shift_time : {None} \cup {Some(v) : v \in LimitValues},
     tour_size : {None} \cup {Some(v) : v \in TourSizeValues}]

\* a tour's stops by the type of their activity: none, or departure, jobs, arrival
Stops(jobs) == <<"departure">> \o [k \in 1..jobs |-> "delivery"] \o <<"arrival">>
StopLists == {<<>>} \cup {Stops(n) : n \in 0..MaxStops}

\* the activities of a tour that belong to jobs
JobActivityCount(stops) ==
    Cardinality({k \in 1..Len(stops) : stops[k] \notin {"departure", "arrival"}})

\* a limit is violated, as a mutant: also when it is only reached
ReachesOrExceeds(actual, limit) == limit.some /\ actual >= limit.v

\* a limit is violated when it is configured and the value is more than it
Exceeds(actual, limit) == limit.some /\ actual > limit.v

\* check_limits for one tour: Ok(()) or the first limit violated
CheckLimits(vehicle_limits, tour) ==
    IF ~vehicle_limits.has THEN "ok"
    ELSE IF Exceeds(tour.distance, vehicle_limits.max_distance) THEN "max distance limit"
    ELSE IF Exceeds(tour.duration, vehicle_limits.shift_time) THEN "shift time limit"
    ELSE IF Exceeds(JobActivityCount(tour.stops), vehicle_limits.tour_size)
    THEN "tour size limit"
    ELSE "ok"

NoTour == [distance |-> 0, duration |-> 0, stops |-> <<>>]

IdleLimits ==
    /\ limits = NoLimits
    /\ checkedTour = NoTour
    /\ limitResult = "off"

InitLimits ==
    /\ limits \in VehicleLimits
    /\ checkedTour = NoTour
    /\ limitResult = "unchecked"

\* check_limits is run on a solution with one tour of the vehicle
CheckLimitsCall(distance, duration, stops) ==
    /\ checkedTour' = [distance |-> distance, duration |-> duration, stops |-> stops]
    /\ limitResult' = CheckLimits(limits, checkedTour')
    /\ UNCHANGED limits

\* limits_test.rs 46-56: (max_distance, shift_time, actual, expected)
ShiftAndDistanceCases ==
    {<<Some(10), None, 11, "max distance limit">>,
     <<Some(10), None, 10, "ok">>,
     <<Some(10), None, 9, "ok">>,
     <<None, Some(10), 11, "shift time limit">>,
     <<None, Some(10), 10, "ok">>,
     <<None, Some(10), 9, "ok">>}

\* limits_test.rs 75-134: tour_size 2 against departure, three jobs, arrival
TourSizeCase == <<Some(2), Stops(3), "tour size limit">>

\* the expectations of the unit tests hold for the check made
TestExpectationsMet ==
    /\ \A c \in ShiftAndDistanceCases :
          (/\ limits = [has |-> TRUE, max_distance |-> c[1], shift_time |-> c[2],
                        tour_size |-> None]
           /\ checkedTour = [distance |-> c[3], duration |-> c[3], stops |-> <<>>])
              => limitResult = c[4]
    /\ (/\ limits = [has |-> TRUE, max_distance |-> None, shift_time |-> None,
                     tour_size |-> TourSizeCase[1]]
        /\ checkedTour.stops = TourSizeCase[2])
          => limitResult = TourSizeCase[3]

\* C15: check_limits reports a violation exactly when a configured limit is
\* strictly exceeded: distance > max_distance, duration > shift_time, or the
\* number of job activities (departure and arrival not counted) > tour_size.
\* A value equal to its limit passes, and so does every tour when no limit is
\* configured.
C15_LimitViolatedIffExceeded ==
    limitResult \notin {"off", "unchecked"} =>
        LET jobStops == {k \in 1..Len(checkedTour.stops) :
                            checkedTour.stops[k] = "delivery"}
            overDistance == /\ limits.max_distance.some
                            /\ checkedTour.distance > limits.max_distance.v
            overTime == /\ limits.shift_time.some
                        /\ checkedTour.duration > limits.shift_time.v
            overSize == /\ limits.tour_size.some
                        /\ Cardinality(jobStops) > limits.tour_size.v
        IN /\ (limitResult # "ok") <=> (overDistance \/ overTime \/ overSize)
           /\ limitResult = "max distance limit" => overDistance
           /\ limitResult = "shift time limit" => overTime
           /\ limitResult = "tour size limit" => overSize
           /\ TestExpectationsMet

\* A tour whose distance equals max_distance and whose duration equals
\* shift_time passed although, counting departure and arrival, it has more
\* stops than tour_size.
C15_Witness ==
    /\ limitResult = "ok"
    /\ limits.max_distance.some
    /\ checkedTour.distance = limits.max_distance.v
    /\ limits.shift_time.some
    /\ checkedTour.duration = limits.shift_time.v
    /\ limits.tour_size.some
    /\ Len(checkedTour.stops) > limits.tour_size.v

----------------------------------------------------------------------------
(* Specifications *)

\* a step of one part leaves the other parts' variables alone
NextTiming ==
    \/ AcceptRouteState
          /\ UNCHANGED <<selectiveVars, simulatorVars, predicateVars, limitsVars, estimateVars, episodeVars>>
    \/ \E p \in 1..(MaxJobs + 2) :
          EvaluateActivityCall(p)
             /\ UNCHANGED <<selectiveVars, simulatorVars, predicateVars, limitsVars, estimateVars, episodeVars>>
    \/ CommitInsertion
          /\ UNCHANGED <<selectiveVars, simulatorVars, predicateVars, limitsVars, estimateVars, episodeVars>>
    \/ AcceptSolutionState
          /\ UNCHANGED <<selectiveVars, simulatorVars, predicateVars, limitsVars, estimateVars, episodeVars>>

NextEstimate ==
    \/ AcceptRouteState
          /\ UNCHANGED <<selectiveVars, simulatorVars, predicateVars, limitsVars, estimateVars, episodeVars>>
    \/ \E p \in 1..(MaxJobs + 2) :
          EstimateActivityCall(p)
             /\ UNCHANGED <<selectiveVars, simulatorVars, predicateVars, limitsVars, episodeVars>>

NextSelective ==
    \/ \E i \in 1..MaxIndividuals :
          /\ i <= Len(individuals)
          /\ ThreadPoolExecute(i)
          /\ UNCHANGED <<timingVars, simulatorVars, predicateVars, limitsVars, estimateVars, episodeVars>>
    \/ \E i \in 1..MaxIndividuals :
          /\ i <= Len(individuals)
          /\ FilterSkips(i)
          /\ UNCHANGED <<timingVars, simulatorVars, predicateVars, limitsVars, estimateVars, episodeVars>>
    \/ \E i \in 1..MaxIndividuals, c \in 0..MaxCost, in_place \in BOOLEAN :
          /\ i <= Len(individuals)
          /\ MutationApplied(i, c, in_place)
          /\ UNCHANGED <<timingVars, simulatorVars, predicateVars, limitsVars, estimateVars, episodeVars>>
    \/ \E i \in 1..MaxIndividuals :
          /\ i <= Len(individuals)
          /\ MutateReturns(i)
          /\ UNCHANGED <<timingVars, simulatorVars, predicateVars, limitsVars, estimateVars, episodeVars>>
    \/ SearchReturns
          /\ UNCHANGED <<timingVars, simulatorVars, predicateVars, limitsVars, estimateVars, episodeVars>>

NextSimulator ==
    \/ RunEpisodes
          /\ UNCHANGED <<timingVars, selectiveVars, predicateVars, limitsVars, estimateVars, episodeVars>>
    \/ \E ag \in Agents :
          EnsureOldState(ag)
             /\ UNCHANGED <<timingVars, selectiveVars, predicateVars, limitsVars, estimateVars, episodeVars>>
    \/ \E ag \in Agents :
          PolicySelectsNone(ag)
             /\ UNCHANGED <<timingVars, selectiveVars, predicateVars, limitsVars, estimateVars, episodeVars>>
    \/ \E ag \in Agents, a \in SimActions :
          PolicySelects(ag, a)
             /\ UNCHANGED <<timingVars, selectiveVars, predicateVars, limitsVars, estimateVars, episodeVars>>
    \/ \E ag \in Agents :
          EnsureNextState(ag)
             /\ UNCHANGED <<timingVars, selectiveVars, predicateVars, limitsVars, estimateVars, episodeVars>>
    \/ \E ag \in Agents :
          Learn(ag)
             /\ UNCHANGED <<timingVars, selectiveVars, predicateVars, limitsVars, estimateVars, episodeVars>>
    \/ MergeEpisodes
          /\ UNCHANGED <<timingVars, selectiveVars, predicateVars, limitsVars, estimateVars, episodeVars>>

\* the simulator's steps, with the history of the episodes kept
NextEpisodes ==
    \/ RunEpisodes
          /\ snapshot' = q
          /\ startState' = agState'
          /\ chosen' = [ag \in Agents |-> <<>>]
          /\ UNCHANGED <<timingVars, selectiveVars, predicateVars, limitsVars, estimateVars>>
    \/ \E ag \in Agents :
          EnsureOldState(ag)
             /\ UNCHANGED <<timingVars, selectiveVars, predicateVars, limitsVars, estimateVars, episodeVars>>
    \/ \E ag \in Agents :
          PolicySelectsNone(ag)
             /\ UNCHANGED <<timingVars, selectiveVars, predicateVars, limitsVars, estimateVars, episodeVars>>
    \/ \E ag \in Agents, a \in SimActions :
          PolicySelects(ag, a)
             /\ chosen' = [chosen EXCEPT ![ag] = Append(@, a)]
             /\ UNCHANGED <<snapshot, startState>>
             /\ UNCHANGED <<timingVars, selectiveVars, predicateVars, limitsVars, estimateVars>>
    \/ \E ag \in Agents :
          EnsureNextState(ag)
             /\ UNCHANGED <<timingVars, selectiveVars, predicateVars, limitsVars, estimateVars, episodeVars>>
    \/ \E ag \in Agents :
          Learn(ag)
             /\ UNCHANGED <<timingVars, selectiveVars, predicateVars, limitsVars, estimateVars, episodeVars>>
    \/ MergeEpisodes
          /\ UNCHANGED <<timingVars, selectiveVars, predicateVars, limitsVars, estimateVars, episodeVars>>

NextPredicate ==
    \E jobs_size \in Thresholds, routes_len \in Thresholds,
       selection_phase \in SelectionPhases, roll \in Rolls :
        ContextMutationProbability(jobs_size, routes_len, selection_phase, roll)
           /\ UNCHANGED <<timingVars, selectiveVars, simulatorVars, limitsVars, estimateVars, episodeVars>>

NextLimits ==
    \E distance \in StatisticValues, duration \in StatisticValues, stops \in StopLists :
        CheckLimitsCall(distance, duration, stops)
           /\ UNCHANGED <<timingVars, selectiveVars, simulatorVars, predicateVars, estimateVars, episodeVars>>

TimingStart ==
    InitTiming /\ IdleSelective /\ IdleSimulator /\ IdlePredicate /\ IdleLimits /\ IdleEstimate /\ IdleEpisodes
EstimateStart ==
    /\ InitTiming /\ required = 0
    /\ IdleSelective /\ IdleSimulator /\ IdlePredicate /\ IdleLimits /\ InitEstimate /\ IdleEpisodes
SelectiveStart ==
    IdleTiming /\ InitSelective /\ IdleSimulator /\ IdlePredicate /\ IdleLimits /\ IdleEstimate /\ IdleEpisodes
SimulatorStart ==
    IdleTiming /\ IdleSelective /\ InitSimulator /\ IdlePredicate /\ IdleLimits /\ IdleEstimate /\ IdleEpisodes
PredicateStart ==
    IdleTiming /\ IdleSelective /\ IdleSimulator /\ InitPredicate /\ IdleLimits /\ IdleEstimate /\ IdleEpisodes
LimitsStart ==
    IdleTiming /\ IdleSelective /\ IdleSimulator /\ IdlePredicate /\ InitLimits /\ IdleEstimate /\ IdleEpisodes

SpecTiming == TimingStart /\ [][NextTiming]_vars

SpecEstimate == EstimateStart /\ [][NextEstimate]_vars

SpecSelective == SelectiveStart /\ [][NextSelective]_vars

SpecSimulator == SimulatorStart /\ [][NextSimulator]_vars

SpecEpisodes == SimulatorStart /\ [][NextEpisodes]_vars

SpecPredicate == PredicateStart /\ [][NextPredicate]_vars

SpecLimits == LimitsStart /\ [][NextLimits]_vars

====
